---- MODULE Spec2Model ----
(***************************************************************************)
(* Appointment scheduling core of the salon booking application: the       *)
(* appointments table with its row-level security policies and foreign    *)
(* keys (supabase_schema.sql), the owner's Dashboard, the client's         *)
(* ClientAppointments view, the Booking wizard, the AdminBookingModal and  *)
(* the Service/Professional management screens with their deletion guard.  *)
(***************************************************************************)
EXTENDS Integers, Sequences, FiniteSets, TLC

\* ------------------------------------------------------------------ bounds
\* Capacity of the tables.
MaxAppointments == 2
MaxServices == 2
MaxProfessionals == 1
\* Rows the lifecycle specifications (Spec, SpecUI) follow at a time.
MaxTracked == 1
\* Alerts counted per observer and (appointment id, status); reminders counted
\* per appointment and kind.
MaxAlerts == 2
MaxReminders == 2

\* ---------------------------------------------------------------- profiles
\* profiles.role is 'client' or 'admin' (supabase_schema.sql:6).  o1 owns the
\* salon s1 (salons.owner_id); o2 is an admin who owns no salon.  The salon s2
\* belongs to an owner who takes no step.
Clients == {"c1", "c2"}
Admins == {"o1", "o2"}
Users == Clients \cup Admins
Salons == {"s1", "s2"}

\* salons.owner_id
salons == [s \in Salons |-> IF s = "s1" THEN "o1" ELSE "o3"]

\* The admins whose Dashboard.fetchData finds a salon (owner_id = profile.id).
Owners == {o \in Admins : \E s \in Salons : salons[s] = o}

\* Dashboard.fetchData: the salon whose owner_id is the profile's id.
SalonOf(o) == CHOOSE s \in Salons : salons[s] = o

Statuses == {"pending", "confirmed", "cancelled", "completed"}
NoId == 0

VARIABLES
  appointments,        \* table appointments: sequence of rows, id = index
  services,            \* table services: sequence of rows, id = index
  professionals,       \* table professionals: sequence of rows, id = index
  dashAppointments,    \* Dashboard state `appointments`, per owner: rows (id, status)
  clientAppointments,  \* ClientAppointments state `appointments`, per client: rows (id, status)
  svcDeleting,         \* ServiceManagement: deletingId while confirmDelete is between count and delete
  profDeleting,        \* ProfessionalManagement: deletingId while confirmDelete is between count and delete
  last,                \* outcome of the last request, as the UI reports it
  subscribed,          \* users whose list screen is mounted with its realtime channel
  inbox,               \* per user: change events sent to the channel, handler not yet run
  alerts,              \* per user: toasts shown by the realtime handlers, per (id, status)
  reviews,             \* table reviews: set of rows
  now,                 \* NotificationManager: the clock
  lastNotified,        \* NotificationManager state `lastNotified`, per user
  pollClosure,         \* `lastNotified` as captured by the checkAppointments the interval runs
  reminders,           \* NotificationManager: sendNotification calls, per user, id and kind
  wizard,              \* Booking state: step, selectedService, selectedTime, customTime
  fetched,             \* the services list a screen has fetched last, and the screen
  app                  \* App state of the browser: session, profile, view, requests in flight

db == <<appointments, services, professionals>>
views == <<dashAppointments, clientAppointments>>
guards == <<svcDeleting, profDeleting>>
realtime == <<subscribed, inbox, alerts>>
notifier == <<now, lastNotified, pollClosure, reminders>>
vars == <<appointments, services, professionals, dashAppointments,
          clientAppointments, svcDeleting, profDeleting, last,
          subscribed, inbox, alerts, reviews, now, lastNotified, pollClosure,
          reminders, wizard, fetched, app>>

\* ------------------------------------------------------------ table access
AppointmentIds == 1..Len(appointments)
ServiceIds == 1..Len(services)
ProfessionalIds == 1..Len(professionals)

\* A deleted row keeps its slot (ids are gen_random_uuid(), never reused).
ServiceExists(v) == v \in ServiceIds /\ ~services[v].deleted
ProfessionalExists(p) == p \in ProfessionalIds /\ ~professionals[p].deleted

\* Outcome of a request: the operation, the row it was about, the result the
\* caller reports and, for the deletion guard, the count it reports.
Outcome(op, id, result, count) ==
  [op |-> op, id |-> id, result |-> result, count |-> count]

NoOutcome == Outcome("none", NoId, "-", 0)

\* ------------------------------------------------- row-level security, FKs
\* "Clients can view own appointments" / "Admins can view salon appointments"
CanSelectAppointment(uid, apt) ==
  uid = apt.client_id \/ salons[apt.salon_id] = uid

\* "Clients can update own appointments" / "Admins can update salon appointments"
CanUpdateAppointment(uid, apt) ==
  uid = apt.client_id \/ salons[apt.salon_id] = uid

\* "Clients can create appointments": WITH CHECK (auth.uid() = client_id)
CanInsertAppointment(uid, row) == uid = row.client_id

\* "Admins can manage services of their salons" (FOR ALL)
CanManageService(uid, svc) == salons[svc.salon_id] = uid

\* "Admins can manage professionals of their salons" (FOR ALL)
CanManageProfessional(uid, prof) == salons[prof.salon_id] = uid

\* appointments.service_id REFERENCES services(id),
\* appointments.professional_id REFERENCES professionals(id) (nullable)
ForeignKeysHold(row) ==
  /\ ServiceExists(row.service_id)
  /\ row.salon_id \in Salons
  /\ (row.professional_id = NoId \/ ProfessionalExists(row.professional_id))

\* INSERT INTO appointments as uid: "ok", or the error the request returns.
InsertResult(uid, row) ==
  IF ~CanInsertAppointment(uid, row) THEN "rls_violation"
  ELSE IF ~ForeignKeysHold(row) THEN "fk_violation"
  ELSE "ok"

\* UPDATE appointments SET status = s WHERE id = id [AND client_id = uid] as
\* uid: the rows the policies let the statement see and change.  A row the
\* USING clause hides is skipped without an error.
UpdateMatches(uid, id, clientFilter) ==
  /\ id \in AppointmentIds
  /\ CanUpdateAppointment(uid, appointments[id])
  /\ (clientFilter => appointments[id].client_id = uid)

\* An update that leaves out .eq('id', id): every row gets the status.
SetStatus_all(id, status) ==
  [i \in AppointmentIds |-> [appointments[i] EXCEPT !.status = status]]

\* A cancellation that deletes the row instead of setting its status.
SetStatus_delete(id, status) ==
  IF status = "cancelled"
  THEN [i \in 1..(Len(appointments) - 1) |->
          IF i < id THEN appointments[i] ELSE appointments[i + 1]]
  ELSE [appointments EXCEPT ![id].status = status]

\* The table after UPDATE ... SET status: only the status column is written.
SetStatus(id, status) == [appointments EXCEPT ![id].status = status]

\* ------------------------------------------------- domains of the UI state
\* A toast of a realtime handler is told apart by appointment id and status.
AlertKeys == (1..MaxAppointments) \X Statuses

\* The reminder kinds of NotificationManager.checkAppointments.
Kinds == {"day", "30min"}
ReminderKeys == (1..MaxAppointments) \X Kinds

\* A time of day as the wizard holds it: the characters of 'HH:MM'; the empty
\* sequence is '' (customTime) or null (selectedTime), both falsy.
NoTime == << >>

\* What a running handleBooking holds of the component state it was called
\* in; NoRequest while none runs.
NoRequest ==
  [service |-> NoId, date |-> 0, time |-> NoTime, custom |-> NoTime, duration |-> 0]

\* Booking before it is mounted (step 0), and as useState initialises it.
WizardClosed ==
  [step |-> 0, service |-> NoId, date |-> 0, time |-> NoTime, custom |-> NoTime,
   duration |-> 0, initial |-> FALSE, loading |-> FALSE, request |-> NoRequest]

\* App as useState initialises it: no session, no profile, view 'home'; no
\* profile request in flight and no sign-in waiting for its continuation.
NoUser == "-"
AppStart ==
  [user |-> NoUser, profile |-> NoUser, view |-> "home", fetching |-> NoUser,
   signingIn |-> FALSE]

\* NotificationManager before its polling effect has run.
NoClosure == [running |-> FALSE, notified |-> [i \in 1..MaxAppointments |-> << >>]]

\* ------------------------------------------------------------------- Init
Init ==
  /\ appointments = << >>
  /\ services = << >>
  /\ professionals = << >>
  /\ dashAppointments = [o \in Owners |-> {}]
  /\ clientAppointments = [c \in Clients |-> {}]
  /\ svcDeleting = [o \in Owners |-> NoId]
  /\ profDeleting = [o \in Owners |-> NoId]
  /\ last = NoOutcome
  /\ subscribed = {}
  /\ inbox = [u \in Users |-> {}]
  /\ alerts = [u \in Users |-> [k \in AlertKeys |-> 0]]
  /\ reviews = {}
  /\ now = 0
  /\ lastNotified = [u \in Users |-> [i \in 1..MaxAppointments |-> << >>]]
  /\ pollClosure = [u \in Users |-> NoClosure]
  /\ reminders = [u \in Users |-> [k \in ReminderKeys |-> 0]]
  /\ wizard = [c \in Clients |-> WizardClosed]
  /\ fetched = [screen |-> "-", list |-> << >>]
  /\ app = AppStart

\* ------------------------------------------------------------ input values
\* start_time of a booking: 10 June 14:00, in minutes of the day.
StartTimes == {840}
\* notes written by Booking.handleBooking: '' or the custom-duration text.
Notes == {""}

\* ------------------------------------------------------------------ reads
\* Dashboard.fetchData: the appointments of the owner's salon, as the list
\* shows them (id and status decide the buttons).
fetchData(o, apts) ==
  {[id |-> i, status |-> apts[i].status] :
     i \in {j \in 1..Len(apts) : /\ CanSelectAppointment(o, apts[j])
                                 /\ apts[j].salon_id = SalonOf(o)}}

\* ClientAppointments.fetchAppointments: the client's own appointments.
fetchAppointments(c, apts) ==
  {[id |-> i, status |-> apts[i].status] :
     i \in {j \in 1..Len(apts) : /\ CanSelectAppointment(c, apts[j])
                                 /\ apts[j].client_id = c}}

\* The status a list shows for an id ("-" when the id is not listed).
Shown(list, id) ==
  IF \E r \in list : r.id = id
  THEN (CHOOSE r \in list : r.id = id).status
  ELSE "-"

\* A count query that skips the cancelled and completed appointments.
ServiceReferenceCount_openOnly(o, v) ==
  Cardinality({i \in AppointmentIds :
                 /\ CanSelectAppointment(o, appointments[i])
                 /\ appointments[i].service_id = v
                 /\ appointments[i].status \in {"pending", "confirmed"}})

\* count of appointments referencing a service, as the owner's query sees it
\* (select('id', {count: 'exact', head: true}).eq('service_id', id)): no
\* filter on status.
ServiceReferenceCount(o, v) ==
  Cardinality({i \in AppointmentIds :
                 /\ CanSelectAppointment(o, appointments[i])
                 /\ appointments[i].service_id = v})

\* count of appointments referencing a professional, as the owner's query sees it.
ProfessionalReferenceCount(o, p) ==
  Cardinality({i \in AppointmentIds :
                 /\ CanSelectAppointment(o, appointments[i])
                 /\ appointments[i].professional_id = p})

\* service_id ... ON DELETE RESTRICT: a referenced service row cannot be deleted.
ServiceReferenced(v) == \E i \in AppointmentIds : appointments[i].service_id = v

\* professional_id ... ON DELETE SET NULL
ClearProfessional(p) ==
  [i \in AppointmentIds |->
     IF appointments[i].professional_id = p
     THEN [appointments[i] EXCEPT !.professional_id = NoId]
     ELSE appointments[i]]

\* --------------------------------------------------------- catalog screens
\* A form that saves the row without its is_active field (the column DEFAULT).
ServiceRow_defaultActive(o, isActive, offered) ==
  [salon_id |-> SalonOf(o), is_active |-> TRUE, deleted |-> FALSE, offered |-> TRUE]

\* The services row written by ServiceManagement.handleSubmit.  `offered`
\* records that the row has been returned by a query for active services
\* (Booking.fetchServices), so a Booking wizard may hold it as selectedService.
ServiceRow(o, isActive, offered) ==
  [salon_id |-> SalonOf(o), is_active |-> isActive, deleted |-> FALSE,
   offered |-> offered \/ isActive]

\* ServiceManagement.handleSubmit: insert (editing = NoId) or update of the
\* edited service (handleEdit) with the form's is_active.
ServiceManagement_handleSubmit(o, editing, isActive) ==
  /\ IF editing = NoId
     THEN /\ Len(services) < MaxServices
          /\ services' = Append(services, ServiceRow(o, isActive, FALSE))
          /\ last' = Outcome("ServiceManagement.handleSubmit", Len(services) + 1, "ok", 0)
     ELSE /\ ServiceExists(editing)
          /\ services[editing].salon_id = SalonOf(o)
          /\ CanManageService(o, services[editing])
          /\ services' = [services EXCEPT
                            ![editing] = ServiceRow(o, isActive, services[editing].offered)]
          /\ last' = Outcome("ServiceManagement.handleSubmit", editing, "ok", 0)
  /\ UNCHANGED <<appointments, professionals, views, guards>>

\* The professionals row written by ProfessionalManagement.handleSubmit.
ProfessionalRow(o, isActive) ==
  [salon_id |-> SalonOf(o), is_active |-> isActive, deleted |-> FALSE]

\* ProfessionalManagement.handleSubmit
ProfessionalManagement_handleSubmit(o, editing, isActive) ==
  /\ IF editing = NoId
     THEN /\ Len(professionals) < MaxProfessionals
          /\ professionals' = Append(professionals, ProfessionalRow(o, isActive))
          /\ last' = Outcome("ProfessionalManagement.handleSubmit",
                             Len(professionals) + 1, "ok", 0)
     ELSE /\ ProfessionalExists(editing)
          /\ professionals[editing].salon_id = SalonOf(o)
          /\ CanManageProfessional(o, professionals[editing])
          /\ professionals' = [professionals EXCEPT ![editing] = ProfessionalRow(o, isActive)]
          /\ last' = Outcome("ProfessionalManagement.handleSubmit", editing, "ok", 0)
  /\ UNCHANGED <<appointments, services, views, guards>>

\* The guard of confirmDelete: `count !== null && count > 0`.
HasBlockingCount_offByOne(count) == count > 1

HasBlockingCount(count) == count > 0

\* ServiceManagement.handleDelete(id) and confirmDelete up to the answer of
\* its first round trip, the count query.
ServiceManagement_confirmDelete_count(o, id) ==
  /\ svcDeleting[o] = NoId
  /\ ServiceExists(id)
  /\ services[id].salon_id = SalonOf(o)
  /\ LET count == ServiceReferenceCount(o, id) IN
     IF HasBlockingCount(count)
     THEN /\ UNCHANGED svcDeleting
          /\ last' = Outcome("ServiceManagement.confirmDelete", id,
                             "ReferentialConflict", count)
     ELSE /\ svcDeleting' = [svcDeleting EXCEPT ![o] = id]
          /\ last' = Outcome("ServiceManagement.confirmDelete", id, "deleting", 0)
  /\ UNCHANGED <<db, views, profDeleting>>

\* ServiceManagement.confirmDelete, second round trip: the delete query.
ServiceManagement_confirmDelete_delete(o) ==
  /\ svcDeleting[o] # NoId
  /\ LET id == svcDeleting[o] IN
     IF CanManageService(o, services[id]) /\ ~ServiceReferenced(id)
     THEN /\ services' = [services EXCEPT ![id].deleted = TRUE]
          /\ last' = Outcome("ServiceManagement.confirmDelete", id, "deleted", 0)
     ELSE /\ UNCHANGED services
          /\ last' = Outcome("ServiceManagement.confirmDelete", id, "fk_violation", 0)
  /\ svcDeleting' = [svcDeleting EXCEPT ![o] = NoId]
  /\ UNCHANGED <<appointments, professionals, views, profDeleting>>

\* ProfessionalManagement.handleDelete(id) and confirmDelete up to the answer
\* of its first round trip, the count query.
ProfessionalManagement_confirmDelete_count(o, id) ==
  /\ profDeleting[o] = NoId
  /\ ProfessionalExists(id)
  /\ professionals[id].salon_id = SalonOf(o)
  /\ LET count == ProfessionalReferenceCount(o, id) IN
     IF HasBlockingCount(count)
     THEN /\ UNCHANGED profDeleting
          /\ last' = Outcome("ProfessionalManagement.confirmDelete", id,
                             "ReferentialConflict", count)
     ELSE /\ profDeleting' = [profDeleting EXCEPT ![o] = id]
          /\ last' = Outcome("ProfessionalManagement.confirmDelete", id, "deleting", 0)
  /\ UNCHANGED <<db, views, svcDeleting>>

\* ProfessionalManagement.confirmDelete, second round trip: the delete query;
\* the foreign key clears professional_id of the referencing appointments.
ProfessionalManagement_confirmDelete_delete(o) ==
  /\ profDeleting[o] # NoId
  /\ LET id == profDeleting[o] IN
     /\ professionals' = [professionals EXCEPT ![id].deleted = TRUE]
     /\ appointments' = ClearProfessional(id)
     /\ last' = Outcome("ProfessionalManagement.confirmDelete", id, "deleted", 0)
  /\ profDeleting' = [profDeleting EXCEPT ![o] = NoId]
  /\ UNCHANGED <<services, views, svcDeleting>>

\* ------------------------------------------------------------ booking paths
\* A row that carries a salon other than the service's.
BookingRow_otherSalon(c, v, t, n) ==
  [client_id |-> c, salon_id |-> CHOOSE s \in Salons : s # services[v].salon_id,
   service_id |-> v, professional_id |-> NoId, start_time |-> t,
   status |-> "pending", notes |-> n]

\* The row Booking.handleBooking inserts (selectedService.salon_id; the
\* fallback 'default' is for a service without a salon, which no screen
\* creates).
BookingRow(c, v, t, n) ==
  [client_id |-> c, salon_id |-> services[v].salon_id, service_id |-> v,
   professional_id |-> NoId, start_time |-> t, status |-> "pending", notes |-> n]

\* Booking.handleBooking with selectedService = v, a service the wizard was
\* offered at some earlier moment, and a time chosen (finalTime non-empty).
Booking_handleBooking(c, v, t, n) ==
  /\ v \in ServiceIds
  /\ services[v].offered
  /\ LET row == BookingRow(c, v, t, n)
         res == InsertResult(c, row) IN
     IF res = "ok"
     THEN /\ Len(appointments) < MaxAppointments
          /\ appointments' = Append(appointments, row)
          /\ last' = Outcome("Booking.handleBooking", Len(appointments) + 1, "ok", 0)
     ELSE /\ UNCHANGED appointments
          /\ last' = Outcome("Booking.handleBooking", NoId, res, 0)
  /\ UNCHANGED <<services, professionals, views, guards>>

\* The row AdminBookingModal.handleSubmit inserts.
AdminBookingRow(o, c, v, t) ==
  [client_id |-> c, salon_id |-> SalonOf(o), service_id |-> v,
   professional_id |-> NoId, start_time |-> t, status |-> "confirmed", notes |-> ""]

\* AdminBookingModal.handleSubmit with all fields filled: a client of the
\* clients list, a service of the salon's list (fetchData), date and time.
AdminBookingModal_handleSubmit(o, c, v, t) ==
  /\ v \in ServiceIds
  /\ services[v].offered
  /\ services[v].salon_id = SalonOf(o)
  /\ LET row == AdminBookingRow(o, c, v, t)
         res == InsertResult(o, row) IN
     IF res = "ok"
     THEN /\ Len(appointments) < MaxAppointments
          /\ appointments' = Append(appointments, row)
          /\ dashAppointments' =
               [dashAppointments EXCEPT ![o] = fetchData(o, appointments')]
          /\ last' = Outcome("AdminBookingModal.handleSubmit",
                             Len(appointments) + 1, "ok", 0)
     ELSE /\ UNCHANGED <<appointments, dashAppointments>>
          /\ last' = Outcome("AdminBookingModal.handleSubmit", NoId, res, 0)
  /\ UNCHANGED <<services, professionals, clientAppointments, guards>>

\* An insert request at the data-access boundary that assigns a professional
\* of the service's salon: the schema's professional_id column, status left
\* to its DEFAULT 'pending'.
InsertAppointment(c, v, p, t) ==
  /\ v \in ServiceIds
  /\ p \in ProfessionalIds
  /\ services[v].salon_id = professionals[p].salon_id
  /\ LET row == [client_id |-> c, salon_id |-> services[v].salon_id,
                 service_id |-> v, professional_id |-> p, start_time |-> t,
                 status |-> "pending", notes |-> ""]
         res == InsertResult(c, row) IN
     IF res = "ok"
     THEN /\ Len(appointments) < MaxAppointments
          /\ appointments' = Append(appointments, row)
          /\ last' = Outcome("insert", Len(appointments) + 1, "ok", 0)
     ELSE /\ UNCHANGED appointments
          /\ last' = Outcome("insert", NoId, res, 0)
  /\ UNCHANGED <<services, professionals, views, guards>>

\* ------------------------------------------------------------ status changes
\* The buttons of the Dashboard list: Confirmar and Cancelar on a row shown
\* as pending, Concluir on a row shown as confirmed.
DashboardButton(shown, status) ==
  \/ shown = "pending" /\ status \in {"confirmed", "cancelled"}
  \/ shown = "confirmed" /\ status = "completed"

\* Dashboard mounts (useEffect on profile): fetchData.
Dashboard_fetchData(o) ==
  /\ dashAppointments' = [dashAppointments EXCEPT ![o] = fetchData(o, appointments)]
  /\ UNCHANGED <<db, clientAppointments, guards, last>>

\* Dashboard.updateAppointmentStatus(id, status), called from a list button.
Dashboard_updateAppointmentStatus(o, id, status) ==
  /\ DashboardButton(Shown(dashAppointments[o], id), status)
  /\ appointments' = IF UpdateMatches(o, id, FALSE)
                     THEN SetStatus(id, status) ELSE appointments
  /\ last' = Outcome("Dashboard.updateAppointmentStatus", id, "ok", 0)
  /\ dashAppointments' = [dashAppointments EXCEPT ![o] = fetchData(o, appointments')]
  /\ UNCHANGED <<services, professionals, clientAppointments, guards>>

\* ClientAppointments mounts (useEffect on profile): fetchAppointments.
ClientAppointments_fetchAppointments(c) ==
  /\ clientAppointments' =
       [clientAppointments EXCEPT ![c] = fetchAppointments(c, appointments)]
  /\ UNCHANGED <<db, dashAppointments, guards, last>>

\* The Cancelar button of a row shown as pending or confirmed.
CancelButton(shown) == shown \in {"pending", "confirmed"}

\* ClientAppointments: the Cancelar button of a listed row (setCancellingId)
\* and handleCancel(cancellingId) from the confirmation dialog.
ClientAppointments_handleCancel(c, id) ==
  /\ CancelButton(Shown(clientAppointments[c], id))
  /\ appointments' = IF UpdateMatches(c, id, TRUE)
                     THEN SetStatus(id, "cancelled") ELSE appointments
  /\ last' = Outcome("ClientAppointments.handleCancel", id, "ok", 0)
  /\ clientAppointments' =
       [clientAppointments EXCEPT ![c] = fetchAppointments(c, appointments')]
  /\ UNCHANGED <<services, professionals, dashAppointments, guards>>

\* An update request at the data-access boundary: the statement of handleCancel
\* (a client's, with its client_id filter) or of updateAppointmentStatus (an
\* admin's) sent by any authenticated user with any id and status; the UPDATE
\* policies decide, and a statement that matches no row returns no error.
UpdateAppointment(uid, id, status) ==
  /\ id \in AppointmentIds
  /\ appointments' = IF UpdateMatches(uid, id, uid \in Clients)
                     THEN SetStatus(id, status) ELSE appointments
  /\ last' = Outcome("update", id, "ok", 0)
  /\ UNCHANGED <<services, professionals, views, guards>>

\* ------------------------------------------------------------------- Next
\* The lifecycle specifications follow MaxTracked rows of each table and leave
\* the realtime channels, the reviews, the reminders and the wizard aside.
Tracked ==
  /\ Len(appointments') <= MaxTracked
  /\ Len(services') <= MaxTracked
  /\ UNCHANGED <<app, realtime, reviews, notifier, wizard, fetched>>

Next ==
  \/ \E o \in Owners, v \in 0..MaxServices, a \in BOOLEAN :
       ServiceManagement_handleSubmit(o, v, a) /\ Tracked
  \/ \E o \in Owners, p \in 0..MaxProfessionals, a \in BOOLEAN :
       ProfessionalManagement_handleSubmit(o, p, a) /\ Tracked
  \/ \E o \in Owners, v \in ServiceIds : ServiceManagement_confirmDelete_count(o, v) /\ Tracked
  \/ \E o \in Owners : ServiceManagement_confirmDelete_delete(o) /\ Tracked
  \/ \E o \in Owners, p \in ProfessionalIds :
       ProfessionalManagement_confirmDelete_count(o, p) /\ Tracked
  \/ \E o \in Owners : ProfessionalManagement_confirmDelete_delete(o) /\ Tracked
  \/ \E c \in Clients, v \in ServiceIds, t \in StartTimes, n \in Notes :
       Booking_handleBooking(c, v, t, n) /\ Tracked
  \/ \E o \in Owners, c \in Clients, v \in ServiceIds, t \in StartTimes :
       AdminBookingModal_handleSubmit(o, c, v, t) /\ Tracked
  \/ \E c \in Clients, v \in ServiceIds, p \in ProfessionalIds, t \in StartTimes :
       InsertAppointment(c, v, p, t) /\ Tracked
  \/ \E o \in Owners : Dashboard_fetchData(o) /\ Tracked
  \/ \E o \in Owners, id \in AppointmentIds, s \in Statuses :
       Dashboard_updateAppointmentStatus(o, id, s) /\ Tracked
  \/ \E c \in Clients : ClientAppointments_fetchAppointments(c) /\ Tracked
  \/ \E c \in Clients, id \in AppointmentIds : ClientAppointments_handleCancel(c, id) /\ Tracked
  \/ \E u \in Users, id \in AppointmentIds, s \in Statuses :
       UpdateAppointment(u, id, s) /\ Tracked

Spec == Init /\ [][Next]_vars

\* The operations of the application's screens alone: no request is sent to
\* the data-access boundary except by a handler of the UI.
NextUI ==
  \/ \E o \in Owners, v \in 0..MaxServices, a \in BOOLEAN :
       ServiceManagement_handleSubmit(o, v, a) /\ Tracked
  \/ \E o \in Owners, p \in 0..MaxProfessionals, a \in BOOLEAN :
       ProfessionalManagement_handleSubmit(o, p, a) /\ Tracked
  \/ \E o \in Owners, v \in ServiceIds : ServiceManagement_confirmDelete_count(o, v) /\ Tracked
  \/ \E o \in Owners : ServiceManagement_confirmDelete_delete(o) /\ Tracked
  \/ \E o \in Owners, p \in ProfessionalIds :
       ProfessionalManagement_confirmDelete_count(o, p) /\ Tracked
  \/ \E o \in Owners : ProfessionalManagement_confirmDelete_delete(o) /\ Tracked
  \/ \E c \in Clients, v \in ServiceIds, t \in StartTimes, n \in Notes :
       Booking_handleBooking(c, v, t, n) /\ Tracked
  \/ \E o \in Owners, c \in Clients, v \in ServiceIds, t \in StartTimes :
       AdminBookingModal_handleSubmit(o, c, v, t) /\ Tracked
  \/ \E o \in Owners : Dashboard_fetchData(o) /\ Tracked
  \/ \E o \in Owners, id \in AppointmentIds, s \in Statuses :
       Dashboard_updateAppointmentStatus(o, id, s) /\ Tracked
  \/ \E c \in Clients : ClientAppointments_fetchAppointments(c) /\ Tracked
  \/ \E c \in Clients, id \in AppointmentIds : ClientAppointments_handleCancel(c, id) /\ Tracked

SpecUI == Init /\ [][NextUI]_vars

\* ------------------------------------------------------------ realtime feed
\* The payload of a postgres_changes event on appointments.  Row-level
\* security is enabled on the table (supabase_schema.sql:54) and no REPLICA
\* IDENTITY FULL is declared, so payload.old carries the primary key only and
\* its status reads as undefined.  `prior` (the status before the write) is
\* not in the payload: the properties read it.
ChangeEvent(event, id, row, prior) ==
  [event |-> event, id |-> id, status |-> row.status, old_status |-> "undefined",
   client_id |-> row.client_id, salon_id |-> row.salon_id, prior |-> prior]

\* The filters of the two channels: Dashboard listens to INSERT and UPDATE with
\* salon_id = salon.id, ClientAppointments to UPDATE with client_id = profile.id.
Receives(u, e) ==
  \/ u \in Owners /\ e.salon_id = SalonOf(u)
  \/ u \in Clients /\ e.event = "UPDATE" /\ e.client_id = u

\* The events of a write reach the channels that are subscribed at that moment.
Emit(events) ==
  inbox' = [u \in Users |->
              inbox[u] \cup {e \in events : u \in subscribed /\ Receives(u, e)}]

\* The INSERT event of the row a step has stored, if it stored one.
InsertEvents ==
  IF Len(appointments') > Len(appointments)
  THEN {ChangeEvent("INSERT", Len(appointments'), appointments'[Len(appointments')], "-")}
  ELSE {}

\* The UPDATE event of the row a status update has matched, if it matched one:
\* a write that stores the status the row already has is an UPDATE too.
UpdateEvents(uid, id, clientFilter) ==
  IF UpdateMatches(uid, id, clientFilter)
  THEN {ChangeEvent("UPDATE", id, appointments'[id], appointments[id].status)}
  ELSE {}

\* ClientAppointments UPDATE handler: `newApt.status !== oldApt.status`.
ClientAppointments_alerts(e) == e.status # e.old_status

\* Dashboard INSERT handler: `newApt.status === 'pending'`.
Dashboard_alertsOnInsert(e) == e.status = "pending"

\* Dashboard UPDATE handler:
\* `newApt.status === 'cancelled' && oldApt?.status !== 'cancelled'`.
Dashboard_alertsOnUpdate(e) == e.status = "cancelled" /\ e.old_status # "cancelled"

\* Whether the handler the event reaches at user u shows a toast.
AlertsOn(u, e) ==
  IF u \in Clients THEN ClientAppointments_alerts(e)
  ELSE IF e.event = "INSERT" THEN Dashboard_alertsOnInsert(e)
  ELSE Dashboard_alertsOnUpdate(e)

\* The channel hands an event to its handler, once or (at-least-once
\* delivery) twice in a row: the number of times the handler runs on it.
Deliveries(again) == IF again THEN 2 ELSE 1

Handled(u, e) == inbox' = [inbox EXCEPT ![u] = @ \ {e}]

\* toast(...) of a realtime handler, once per run.
Toast(u, e, runs) ==
  /\ alerts[u][<<e.id, e.status>>] + runs <= MaxAlerts
  /\ alerts' = [alerts EXCEPT ![u][<<e.id, e.status>>] = @ + runs]

\* ClientAppointments: the handler of the UPDATE subscription.
ClientAppointments_onUpdate(c, e, again) ==
  /\ c \in Clients \cap subscribed
  /\ e \in inbox[c]
  /\ Handled(c, e)
  /\ IF ClientAppointments_alerts(e)
     THEN /\ Toast(c, e, Deliveries(again))
          /\ clientAppointments' =
               [clientAppointments EXCEPT ![c] = fetchAppointments(c, appointments)]
     ELSE UNCHANGED <<alerts, clientAppointments>>
  /\ UNCHANGED <<db, dashAppointments, guards, last, subscribed>>

\* Dashboard: the handler of the INSERT subscription.
Dashboard_onInsert(o, e, again) ==
  /\ o \in Owners \cap subscribed
  /\ e \in inbox[o]
  /\ e.event = "INSERT"
  /\ Handled(o, e)
  /\ IF Dashboard_alertsOnInsert(e)
     THEN /\ Toast(o, e, Deliveries(again))
          /\ dashAppointments' = [dashAppointments EXCEPT ![o] = fetchData(o, appointments)]
     ELSE UNCHANGED <<alerts, dashAppointments>>
  /\ UNCHANGED <<db, clientAppointments, guards, last, subscribed>>

\* Dashboard: the handler of the UPDATE subscription.
Dashboard_onUpdate(o, e, again) ==
  /\ o \in Owners \cap subscribed
  /\ e \in inbox[o]
  /\ e.event = "UPDATE"
  /\ Handled(o, e)
  /\ IF Dashboard_alertsOnUpdate(e)
     THEN /\ Toast(o, e, Deliveries(again))
          /\ dashAppointments' = [dashAppointments EXCEPT ![o] = fetchData(o, appointments)]
     ELSE UNCHANGED <<alerts, dashAppointments>>
  /\ UNCHANGED <<db, clientAppointments, guards, last, subscribed>>

\* ClientAppointments mounts: fetchAppointments and the channel's subscribe().
ClientAppointments_mount(c) ==
  /\ c \notin subscribed
  /\ ClientAppointments_fetchAppointments(c)
  /\ subscribed' = subscribed \cup {c}
  /\ UNCHANGED <<inbox, alerts>>

\* Dashboard mounts: fetchData sets the salon, the effect on salon.id subscribes.
Dashboard_mount(o) ==
  /\ o \notin subscribed
  /\ Dashboard_fetchData(o)
  /\ subscribed' = subscribed \cup {o}
  /\ UNCHANGED <<inbox, alerts>>

\* The cleanup of either effect: supabase.removeChannel(channel).
removeChannel(u) ==
  /\ u \in subscribed
  /\ subscribed' = subscribed \ {u}
  /\ inbox' = [inbox EXCEPT ![u] = {}]
  /\ UNCHANGED <<db, views, guards, last, alerts>>

\* The writes of the screens together with the events they put on the feed.
Realtime_handleBooking(c, v, t, n) ==
  Booking_handleBooking(c, v, t, n) /\ Emit(InsertEvents) /\ UNCHANGED <<subscribed, alerts>>

Realtime_handleSubmit(o, c, v, t) ==
  AdminBookingModal_handleSubmit(o, c, v, t) /\ Emit(InsertEvents)
    /\ UNCHANGED <<subscribed, alerts>>

Realtime_updateAppointmentStatus(o, id, status) ==
  Dashboard_updateAppointmentStatus(o, id, status) /\ Emit(UpdateEvents(o, id, FALSE))
    /\ UNCHANGED <<subscribed, alerts>>

Realtime_handleCancel(c, id) ==
  ClientAppointments_handleCancel(c, id) /\ Emit(UpdateEvents(c, id, TRUE))
    /\ UNCHANGED <<subscribed, alerts>>

\* What the realtime specification leaves aside.
RealtimeFrame ==
  /\ Len(appointments') <= MaxTracked
  /\ Len(services') <= MaxTracked
  /\ UNCHANGED <<app, reviews, notifier, wizard, fetched>>

\* The client whose bookings and list the realtime specification follows.
RealtimeClients == {"c1"}

NextRealtime ==
  \/ \E o \in Owners :
       ServiceManagement_handleSubmit(o, NoId, TRUE) /\ UNCHANGED realtime /\ RealtimeFrame
  \/ \E c \in RealtimeClients, v \in ServiceIds, t \in StartTimes, n \in Notes :
       Realtime_handleBooking(c, v, t, n) /\ RealtimeFrame
  \/ \E o \in Owners, c \in RealtimeClients, v \in ServiceIds, t \in StartTimes :
       Realtime_handleSubmit(o, c, v, t) /\ RealtimeFrame
  \/ \E o \in Owners, id \in AppointmentIds, s \in Statuses :
       Realtime_updateAppointmentStatus(o, id, s) /\ RealtimeFrame
  \/ \E c \in RealtimeClients, id \in AppointmentIds : Realtime_handleCancel(c, id) /\ RealtimeFrame
  \/ \E c \in RealtimeClients : ClientAppointments_mount(c) /\ RealtimeFrame
  \/ \E o \in Owners : Dashboard_mount(o) /\ RealtimeFrame
  \/ \E u \in RealtimeClients \cup Owners : removeChannel(u) /\ RealtimeFrame
  \/ \E c \in RealtimeClients, again \in BOOLEAN : \E e \in inbox[c] :
       ClientAppointments_onUpdate(c, e, again) /\ RealtimeFrame
  \/ \E o \in Owners, again \in BOOLEAN : \E e \in inbox[o] :
       Dashboard_onInsert(o, e, again) /\ RealtimeFrame
  \/ \E o \in Owners, again \in BOOLEAN : \E e \in inbox[o] :
       Dashboard_onUpdate(o, e, again) /\ RealtimeFrame

SpecRealtime == Init /\ [][NextRealtime]_vars

\* ------------------------------------------------------------ Booking wizard
\* Times of day as the component holds them, character by character: two of
\* the nine timeSlots and a value typed into the <input type="time">.
T0900 == <<"0", "9", ":", "0", "0">>
T1400 == <<"1", "4", ":", "0", "0">>
T1430 == <<"1", "4", ":", "3", "0">>
timeSlots == {T0900, T1400}
CustomTimes == {T1430}

\* selectedDate: startOfToday() or addDays(startOfToday(), i), as i.
Dates == {0, 1}

\* services.duration as the management form proposes it, and the duration
\* buttons of step 2 the model offers.
ServiceDuration == 30
LongDuration == 60
DurationChoices == {ServiceDuration, LongDuration}

\* services.duration: the first service is saved with the form's proposal, a
\* later one with the long duration.
DurationOf(v) == IF v = 1 THEN ServiceDuration ELSE LongDuration

MinutesPerHour == 60
MinutesPerDay == 1440

\* parseInt of a string of decimal digits.
DigitValue(ch) ==
  CASE ch = "0" -> 0 [] ch = "1" -> 1 [] ch = "2" -> 2 [] ch = "3" -> 3
    [] ch = "4" -> 4 [] ch = "5" -> 5 [] ch = "6" -> 6 [] ch = "7" -> 7
    [] ch = "8" -> 8 [] ch = "9" -> 9

RECURSIVE parseInt(_)
parseInt(chars) ==
  IF chars = << >> THEN 0
  ELSE parseInt(SubSeq(chars, 1, Len(chars) - 1)) * 10 + DigitValue(chars[Len(chars)])

\* finalTime.split(':'): the characters before and after the first colon.
split(chars) ==
  LET k == CHOOSE i \in 1..Len(chars) :
             chars[i] = ":" /\ \A j \in 1..(i - 1) : chars[j] # ":"
  IN <<SubSeq(chars, 1, k - 1), SubSeq(chars, k + 1, Len(chars))>>

\* A start time that keeps today's date whatever date is selected.
startTime_today(selectedDate, finalTime) ==
  parseInt(split(finalTime)[1]) * MinutesPerHour + parseInt(split(finalTime)[2])

\* setMinutes(setHours(selectedDate, parseInt(hours)), parseInt(minutes)), in
\* minutes since the start of today.
startTime(selectedDate, finalTime) ==
  LET hours == split(finalTime)[1]
      minutes == split(finalTime)[2]
  IN selectedDate * MinutesPerDay + parseInt(hours) * MinutesPerHour + parseInt(minutes)

\* notes: the custom duration when it differs from the service's duration.
BookingNotes(customDuration, duration) ==
  IF customDuration # duration
  THEN (IF customDuration = LongDuration THEN "Duracao personalizada: 60 min"
        ELSE "Duracao personalizada: 30 min")
  ELSE ""

\* Booking.handleBooking on the component state w of client c: without a
\* selected service and a time it returns at once, nothing stored and nothing
\* reported (result "-"); otherwise the insert.
handleBooking(c, w) ==
  LET finalTime == IF w.custom # NoTime THEN w.custom ELSE w.time IN
  IF w.service = NoId \/ finalTime = NoTime
  THEN /\ last' = Outcome("Booking.handleBooking", NoId, "-", 0)
       /\ UNCHANGED <<db, views, guards>>
  ELSE Booking_handleBooking(c, w.service, startTime(w.date, finalTime),
                             BookingNotes(w.duration, DurationOf(w.service)))

\* App shows Booking with initialService, a service picked from a discovery
\* list: step 2, no time, customDuration = the service's duration.
Booking_mount(c, v) ==
  /\ wizard[c].step = 0
  /\ v \in ServiceIds
  /\ services[v].offered
  /\ wizard' = [wizard EXCEPT ![c] = [step |-> 2, service |-> v, date |-> 0,
                                      time |-> NoTime, custom |-> NoTime,
                                      duration |-> DurationOf(v),
                                      initial |-> TRUE, loading |-> FALSE,
                                      request |-> NoRequest]]
  /\ UNCHANGED <<db, views, guards, last>>

\* Step 2: a date button.
Booking_setSelectedDate(c, d) ==
  /\ wizard[c].step = 2
  /\ wizard' = [wizard EXCEPT ![c].date = d]
  /\ UNCHANGED <<db, views, guards, last>>

\* Step 2: a time slot button (setSelectedTime(time); setCustomTime('')).
Booking_setSelectedTime(c, t) ==
  /\ wizard[c].step = 2
  /\ wizard' = [wizard EXCEPT ![c].time = t, ![c].custom = NoTime]
  /\ UNCHANGED <<db, views, guards, last>>

\* Step 2: the custom time input, typed or cleared
\* (setCustomTime(e.target.value); setSelectedTime(null)).
Booking_setCustomTime(c, t) ==
  /\ wizard[c].step = 2
  /\ wizard' = [wizard EXCEPT ![c].custom = t, ![c].time = NoTime]
  /\ UNCHANGED <<db, views, guards, last>>

\* Step 2: a duration button.
Booking_setCustomDuration(c, d) ==
  /\ wizard[c].step = 2
  /\ wizard' = [wizard EXCEPT ![c].duration = d]
  /\ UNCHANGED <<db, views, guards, last>>

\* A Continuar button that is never disabled.
Booking_continue_enabled(c) ==
  /\ wizard[c].step = 2
  /\ wizard' = [wizard EXCEPT ![c].step = 3]
  /\ UNCHANGED <<db, views, guards, last>>

\* Step 2: Continuar, disabled while `!selectedTime && !customTime`.
Booking_continue(c) ==
  /\ wizard[c].step = 2
  /\ ~(wizard[c].time = NoTime /\ wizard[c].custom = NoTime)
  /\ wizard' = [wizard EXCEPT ![c].step = 3]
  /\ UNCHANGED <<db, views, guards, last>>

\* Step 3: Voltar e Editar.
Booking_edit(c) ==
  /\ wizard[c].step = 3
  /\ wizard' = [wizard EXCEPT ![c].step = 2]
  /\ UNCHANGED <<db, views, guards, last>>

\* Step 3: Finalizar Agendamento; setStep(4) after a successful insert.
Booking_finish(c) ==
  /\ wizard[c].step = 3
  /\ handleBooking(c, wizard[c])
  /\ wizard' = [wizard EXCEPT ![c].step =
                  IF Len(appointments') > Len(appointments) THEN 4 ELSE @]

\* Booking leaves the screen: onBack of step 1 or of step 2 (with an initial
\* service), the reload of step 4.
Booking_unmount(c) ==
  /\ \/ wizard[c].step \in {1, 4}
     \/ wizard[c].step = 2 /\ wizard[c].initial
  /\ wizard' = [wizard EXCEPT ![c] = WizardClosed]
  /\ UNCHANGED <<db, views, guards, last>>

\* The client whose wizard the booking specification follows.
BookingClients == {"c1"}

\* What the booking specification leaves aside.
BookingFrame ==
  /\ Len(services') <= MaxTracked
  /\ UNCHANGED <<app, realtime, reviews, notifier, fetched>>

NextBooking ==
  \/ \E o \in Owners, v \in 0..MaxTracked, a \in BOOLEAN :
       ServiceManagement_handleSubmit(o, v, a) /\ UNCHANGED wizard /\ BookingFrame
  \/ \E o \in Owners, c \in BookingClients, v \in ServiceIds, t \in StartTimes :
       AdminBookingModal_handleSubmit(o, c, v, t) /\ UNCHANGED wizard /\ BookingFrame
  \/ \E c \in BookingClients, v \in ServiceIds : Booking_mount(c, v) /\ BookingFrame
  \/ \E c \in BookingClients, d \in Dates : Booking_setSelectedDate(c, d) /\ BookingFrame
  \/ \E c \in BookingClients, t \in timeSlots : Booking_setSelectedTime(c, t) /\ BookingFrame
  \/ \E c \in BookingClients, t \in {NoTime} \cup CustomTimes :
       Booking_setCustomTime(c, t) /\ BookingFrame
  \/ \E c \in BookingClients, d \in DurationChoices :
       Booking_setCustomDuration(c, d) /\ BookingFrame
  \/ \E c \in BookingClients : Booking_continue(c) /\ BookingFrame
  \/ \E c \in BookingClients : Booking_edit(c) /\ BookingFrame
  \/ \E c \in BookingClients : Booking_finish(c) /\ BookingFrame
  \/ \E c \in BookingClients : Booking_unmount(c) /\ BookingFrame

SpecBooking == Init /\ [][NextBooking]_vars

\* The component states handleBooking is written for: a service or null, a
\* slot or null, a custom time or ''.
ComponentStates ==
  [step : {3}, service : {NoId} \cup ServiceIds, date : Dates,
   time : {NoTime} \cup timeSlots, custom : {NoTime} \cup CustomTimes,
   duration : DurationChoices, initial : {TRUE}, loading : {FALSE},
   request : {NoRequest}]

\* handleBooking applied to a component state, whatever the screen shows.
Booking_call(c, w) == handleBooking(c, w) /\ UNCHANGED wizard

\* The wizard, and handleBooking as a function of the component state.
NextHandler ==
  \/ \E o \in Owners : ServiceManagement_handleSubmit(o, NoId, TRUE)
       /\ UNCHANGED wizard /\ BookingFrame
  \/ \E c \in BookingClients, v \in ServiceIds : Booking_mount(c, v) /\ BookingFrame
  \/ \E c \in BookingClients, d \in Dates : Booking_setSelectedDate(c, d) /\ BookingFrame
  \/ \E c \in BookingClients, t \in timeSlots : Booking_setSelectedTime(c, t) /\ BookingFrame
  \/ \E c \in BookingClients, t \in {NoTime} \cup CustomTimes :
       Booking_setCustomTime(c, t) /\ BookingFrame
  \/ \E c \in BookingClients : Booking_continue(c) /\ BookingFrame
  \/ \E c \in BookingClients : Booking_edit(c) /\ BookingFrame
  \/ \E c \in BookingClients : Booking_finish(c) /\ BookingFrame
  \/ \E c \in BookingClients : Booking_unmount(c) /\ BookingFrame
  \/ \E c \in BookingClients, w \in ComponentStates : Booking_call(c, w) /\ BookingFrame

SpecHandler == Init /\ [][NextHandler]_vars

\* ----------------------------------------------------------------- reviews
\* "Clients can create reviews": WITH CHECK (auth.uid() = client_id)
CanInsertReview(uid, row) == uid = row.client_id

\* INSERT INTO reviews as uid; rating and comment are left out of the row.
InsertReview(uid, row) ==
  reviews' = IF CanInsertReview(uid, row) THEN reviews \cup {row} ELSE reviews

\* The Avaliar button of a row shown as completed.
ReviewButton(shown) == shown = "completed"

\* ClientAppointments: the Avaliar button of a listed row (setReviewingApt)
\* and handleReview from the review dialog.
ClientAppointments_handleReview(c, id) ==
  /\ ReviewButton(Shown(clientAppointments[c], id))
  /\ InsertReview(c, [salon_id |-> appointments[id].salon_id, client_id |-> c])
  /\ last' = Outcome("ClientAppointments.handleReview", id, "ok", 0)
  /\ UNCHANGED <<db, views, guards>>

\* EstablishmentDetail.handleSubmitReview of the logged-in user u on the page
\* of salon s, with a comment written: only the user's role is looked at.
EstablishmentDetail_handleSubmitReview(u, s) ==
  /\ IF u \notin Clients
     THEN /\ UNCHANGED reviews
          /\ last' = Outcome("EstablishmentDetail.handleSubmitReview", NoId,
                             "Apenas clientes podem fazer avaliacoes.", 0)
     ELSE /\ InsertReview(u, [salon_id |-> s, client_id |-> u])
          /\ last' = Outcome("EstablishmentDetail.handleSubmitReview", NoId, "ok", 0)
  /\ UNCHANGED <<db, views, guards>>

\* What the reviews specification leaves aside.
ReviewsFrame ==
  /\ Len(appointments') <= MaxTracked
  /\ Len(services') <= MaxTracked
  /\ UNCHANGED <<app, realtime, notifier, wizard, fetched>>

NextReviews ==
  \/ \E o \in Owners :
       ServiceManagement_handleSubmit(o, NoId, TRUE) /\ UNCHANGED reviews /\ ReviewsFrame
  \/ \E c \in Clients, v \in ServiceIds, t \in StartTimes, n \in Notes :
       Booking_handleBooking(c, v, t, n) /\ UNCHANGED reviews /\ ReviewsFrame
  \/ \E o \in Owners : Dashboard_fetchData(o) /\ UNCHANGED reviews /\ ReviewsFrame
  \/ \E o \in Owners, id \in AppointmentIds, s \in Statuses :
       Dashboard_updateAppointmentStatus(o, id, s) /\ UNCHANGED reviews /\ ReviewsFrame
  \/ \E c \in Clients : ClientAppointments_fetchAppointments(c)
       /\ UNCHANGED reviews /\ ReviewsFrame
  \/ \E c \in Clients, id \in AppointmentIds :
       ClientAppointments_handleCancel(c, id) /\ UNCHANGED reviews /\ ReviewsFrame
  \/ \E c \in Clients, id \in AppointmentIds :
       ClientAppointments_handleReview(c, id) /\ ReviewsFrame
  \/ \E u \in Users, s \in Salons :
       EstablishmentDetail_handleSubmitReview(u, s) /\ ReviewsFrame

SpecReviews == Init /\ [][NextReviews]_vars

\* ----------------------------------------------------------- service lists
\* The orders in which a query without ORDER BY may return a set of rows.
Orders(rows) ==
  {list \in [1..Cardinality(rows) -> rows] :
     \A i, j \in 1..Cardinality(rows) : i # j => list[i] # list[j]}

\* services.created_at DEFAULT NOW(): rows are stored in the order of creation.
created_at(v) == v

\* A management list in the order of creation, oldest first.
OrderByCreatedAtDesc_ascending(rows) ==
  CHOOSE list \in Orders(rows) :
    \A i, j \in 1..Cardinality(rows) : i < j => created_at(list[i]) < created_at(list[j])

\* .order('created_at', { ascending: false })
OrderByCreatedAtDesc(rows) ==
  CHOOSE list \in Orders(rows) :
    \A i, j \in 1..Cardinality(rows) : i < j => created_at(list[i]) > created_at(list[j])

\* A list query that leaves out .eq('is_active', true).
ActiveServices_unfiltered == {v \in ServiceIds : ServiceExists(v)}

\* from('services').select(...).eq('is_active', true)
ActiveServices == {v \in ServiceIds : ServiceExists(v) /\ services[v].is_active}

\* ... .eq('salon_id', salonId).eq('is_active', true)
ActiveServicesOf(s) == {v \in ActiveServices : services[v].salon_id = s}

\* A screen stores the list its query returned.
SetServices(screen, list) ==
  /\ fetched' = [screen |-> screen, list |-> list]
  /\ UNCHANGED <<db, views, guards, last>>

\* Booking.fetchServices
Booking_fetchServices ==
  \E list \in Orders(ActiveServices) : SetServices("Booking", list)

\* EstablishmentDiscovery.fetchData: the active services (of the salons the
\* join returns as active; the model's salon is).
EstablishmentDiscovery_fetchData ==
  \E list \in Orders(ActiveServices) : SetServices("EstablishmentDiscovery", list)

\* EstablishmentDetail.fetchSalonData
EstablishmentDetail_fetchSalonData(s) ==
  \E list \in Orders(ActiveServicesOf(s)) : SetServices("EstablishmentDetail", list)

\* AdminBookingModal.fetchData
AdminBookingModal_fetchData(o) ==
  \E list \in Orders(ActiveServicesOf(SalonOf(o))) : SetServices("AdminBookingModal", list)

\* ServiceManagement.fetchServices: every service of the salon, newest first.
ServiceManagement_fetchServices(o) ==
  SetServices("ServiceManagement",
              OrderByCreatedAtDesc({v \in ServiceIds :
                                      /\ ServiceExists(v)
                                      /\ services[v].salon_id = SalonOf(o)}))

\* What the catalog specification leaves aside.
CatalogFrame ==
  /\ UNCHANGED <<app, realtime, reviews, notifier, wizard>>

NextCatalog ==
  \/ \E o \in Owners, v \in 0..MaxServices, a \in BOOLEAN :
       ServiceManagement_handleSubmit(o, v, a) /\ UNCHANGED fetched /\ CatalogFrame
  \/ \E o \in Owners, v \in ServiceIds :
       ServiceManagement_confirmDelete_count(o, v) /\ UNCHANGED fetched /\ CatalogFrame
  \/ \E o \in Owners :
       ServiceManagement_confirmDelete_delete(o) /\ UNCHANGED fetched /\ CatalogFrame
  \/ Booking_fetchServices /\ CatalogFrame
  \/ EstablishmentDiscovery_fetchData /\ CatalogFrame
  \/ \E s \in Salons : EstablishmentDetail_fetchSalonData(s) /\ CatalogFrame
  \/ \E o \in Owners : AdminBookingModal_fetchData(o) /\ CatalogFrame
  \/ \E o \in Owners : ServiceManagement_fetchServices(o) /\ CatalogFrame

SpecCatalog == Init /\ [][NextCatalog]_vars

\* ------------------------------------------------------------- reminders
\* The instants, in minutes since the start of day 0, at which a poll can run:
\* the morning of day 0, the half hour before 14:00, and after 14:00.
Instants == {5, 10, 815, 820, 845}

\* notified.includes(kind)
includes(notified, kind) == \E k \in 1..Len(notified) : notified[k] = kind

\* A query without .eq('status', 'confirmed').
UpcomingConfirmed_anyStatus(u, t) ==
  {i \in AppointmentIds :
     /\ appointments[i].start_time >= t
     /\ CanSelectAppointment(u, appointments[i])
     /\ IF u \in Admins
        THEN u \in Owners /\ appointments[i].salon_id = SalonOf(u)
        ELSE appointments[i].client_id = u}

\* The query of checkAppointments at instant t: the confirmed appointments that
\* have not started, of the salon for its owner (an admin whose salon is not
\* loaded gets nothing), of the client otherwise.
UpcomingConfirmed(u, t) ==
  {i \in AppointmentIds :
     /\ appointments[i].status = "confirmed"
     /\ appointments[i].start_time >= t
     /\ CanSelectAppointment(u, appointments[i])
     /\ IF u \in Admins
        THEN u \in Owners /\ appointments[i].salon_id = SalonOf(u)
        ELSE appointments[i].client_id = u}

\* isSameDay(aptTime, today)
isSameDay(aptTime, t) == aptTime \div MinutesPerDay = t \div MinutesPerDay

\* differenceInMinutes(aptTime, now)
differenceInMinutes(aptTime, t) == aptTime - t

\* The reminder window of checkAppointments, in minutes.
ReminderWindow == 30

\* The kinds checkAppointments sends for appointment i at instant t, in the
\* order of the two tests, given the notified list it reads.
Sent(u, i, t, notified) ==
  IF i \notin UpcomingConfirmed(u, t) THEN << >>
  ELSE (IF /\ isSameDay(appointments[i].start_time, t)
           /\ ~includes(notified, "day")
        THEN <<"day">> ELSE << >>)
       \o
       (IF /\ differenceInMinutes(appointments[i].start_time, t) <= ReminderWindow
           /\ differenceInMinutes(appointments[i].start_time, t) > 0
           /\ ~includes(notified, "30min")
        THEN <<"30min">> ELSE << >>)

\* checkAppointments of the render whose lastNotified is `captured`, at instant
\* t: sendNotification for every kind sent, and updateNotified appends the kind
\* to the current list of the appointment.
checkAppointments(u, captured, t) ==
  /\ reminders' =
       [reminders EXCEPT ![u] =
          [k \in ReminderKeys |->
             IF includes(Sent(u, k[1], t, captured[k[1]]), k[2])
             THEN reminders[u][k] + 1 ELSE reminders[u][k]]]
  /\ \A k \in ReminderKeys : reminders'[u][k] <= MaxReminders
  /\ lastNotified' =
       [lastNotified EXCEPT ![u] =
          [i \in 1..MaxAppointments |->
             lastNotified[u][i] \o Sent(u, i, t, captured[i])]]

\* The polling effect of NotificationManager, run when userId or salonId is
\* set (login, page load, the owner's salon loaded): it calls the
\* checkAppointments of this render and hands the same function to setInterval.
NotificationManager_effect(u) ==
  /\ pollClosure' =
       [pollClosure EXCEPT ![u] = [running |-> TRUE, notified |-> lastNotified[u]]]
  /\ checkAppointments(u, lastNotified[u], now)
  /\ UNCHANGED <<now, db, views, guards, last>>

\* The interval fires at a later instant: the function handed to setInterval
\* runs, reading the lastNotified of the render in which the effect ran.
NotificationManager_interval(u, t) ==
  /\ pollClosure[u].running
  /\ t > now
  /\ now' = t
  /\ checkAppointments(u, pollClosure[u].notified, t)
  /\ UNCHANGED <<pollClosure, db, views, guards, last>>

NotifierUsers == Users

\* What the reminders specification leaves aside.
NotifierFrame ==
  /\ Len(appointments') <= MaxTracked
  /\ UNCHANGED <<app, realtime, reviews, wizard, fetched>>

NextNotifier ==
  \/ \E o \in Owners :
       ServiceManagement_handleSubmit(o, NoId, TRUE) /\ UNCHANGED notifier /\ NotifierFrame
  \/ \E c \in NotifierUsers \cap Clients, v \in ServiceIds, t \in StartTimes, n \in Notes :
       Booking_handleBooking(c, v, t, n) /\ UNCHANGED notifier /\ NotifierFrame
  \/ \E o \in Owners : Dashboard_fetchData(o) /\ UNCHANGED notifier /\ NotifierFrame
  \/ \E o \in Owners, id \in AppointmentIds, s \in Statuses :
       Dashboard_updateAppointmentStatus(o, id, s) /\ UNCHANGED notifier /\ NotifierFrame
  \/ \E u \in NotifierUsers : NotificationManager_effect(u) /\ NotifierFrame
  \/ \E u \in NotifierUsers, t \in Instants :
       NotificationManager_interval(u, t) /\ NotifierFrame

SpecNotifier == Init /\ [][NextNotifier]_vars

\* ------------------------------------------------------- status transitions
\* What the status specification leaves aside: it follows two appointments of
\* one service.
StatusFrame ==
  /\ Len(services') <= MaxTracked
  /\ UNCHANGED <<app, realtime, reviews, notifier, wizard, fetched>>

NextStatus ==
  \/ \E o \in Owners : ServiceManagement_handleSubmit(o, NoId, TRUE) /\ StatusFrame
  \/ \E c \in Clients, v \in ServiceIds, t \in StartTimes, n \in Notes :
       Booking_handleBooking(c, v, t, n) /\ StatusFrame
  \/ \E o \in Owners : Dashboard_fetchData(o) /\ StatusFrame
  \/ \E o \in Owners, id \in AppointmentIds, s \in Statuses :
       Dashboard_updateAppointmentStatus(o, id, s) /\ StatusFrame
  \/ \E c \in Clients : ClientAppointments_fetchAppointments(c) /\ StatusFrame
  \/ \E c \in Clients, id \in AppointmentIds :
       ClientAppointments_handleCancel(c, id) /\ StatusFrame

SpecStatus == Init /\ [][NextStatus]_vars

\* ------------------------------------------------------------------ clock
\* Time passes: `new Date()` reads a later instant.
Clock_tick(t) ==
  /\ t > now
  /\ now' = t
  /\ UNCHANGED <<app, db, views, guards, last, realtime, reviews, wizard, fetched,
                 lastNotified, pollClosure, reminders>>

\* What the specification of bookings in time leaves aside.
PastFrame ==
  /\ Len(services') <= MaxTracked
  /\ UNCHANGED <<app, realtime, reviews, fetched, lastNotified, pollClosure, reminders>>

NextPast ==
  \/ \E o \in Owners : ServiceManagement_handleSubmit(o, NoId, TRUE)
       /\ UNCHANGED <<wizard, now>> /\ PastFrame
  \/ \E o \in Owners, c \in BookingClients, v \in ServiceIds, t \in StartTimes :
       AdminBookingModal_handleSubmit(o, c, v, t) /\ UNCHANGED <<wizard, now>> /\ PastFrame
  \/ \E c \in BookingClients, v \in ServiceIds :
       Booking_mount(c, v) /\ UNCHANGED now /\ PastFrame
  \/ \E c \in BookingClients, d \in Dates :
       Booking_setSelectedDate(c, d) /\ UNCHANGED now /\ PastFrame
  \/ \E c \in BookingClients, t \in timeSlots :
       Booking_setSelectedTime(c, t) /\ UNCHANGED now /\ PastFrame
  \/ \E c \in BookingClients, t \in {NoTime} \cup CustomTimes :
       Booking_setCustomTime(c, t) /\ UNCHANGED now /\ PastFrame
  \/ \E c \in BookingClients : Booking_continue(c) /\ UNCHANGED now /\ PastFrame
  \/ \E c \in BookingClients : Booking_edit(c) /\ UNCHANGED now /\ PastFrame
  \/ \E c \in BookingClients : Booking_finish(c) /\ UNCHANGED now /\ PastFrame
  \/ \E c \in BookingClients : Booking_unmount(c) /\ UNCHANGED now /\ PastFrame
  \/ \E t \in Instants : Clock_tick(t) /\ PastFrame

SpecPast == Init /\ [][NextPast]_vars

\* ------------------------------------------------- wizard from its first step
\* App shows Booking without initialService (the client comes back from the
\* profile settings): step 1 with the list of fetchServices, no service.
Booking_open(c) ==
  /\ wizard[c].step = 0
  /\ wizard' = [wizard EXCEPT ![c] = [WizardClosed EXCEPT !.step = 1]]
  /\ UNCHANGED <<db, views, guards, last>>

\* A service button that leaves customDuration as it is.
Booking_selectService_keep(c, v) ==
  /\ wizard[c].step = 1
  /\ v \in ServiceIds
  /\ services[v].offered
  /\ wizard' = [wizard EXCEPT ![c].service = v, ![c].step = 2]
  /\ UNCHANGED <<db, views, guards, last>>

\* Step 1: a service button (setSelectedService(service); setStep(2)) and the
\* effect on [selectedService], which runs when the selected service is
\* another one: setCustomDuration(selectedService.duration).
Booking_selectService(c, v) ==
  /\ wizard[c].step = 1
  /\ v \in ServiceIds
  /\ services[v].offered
  /\ wizard' = [wizard EXCEPT ![c].service = v, ![c].step = 2,
                              ![c].duration =
                                IF v # wizard[c].service THEN DurationOf(v) ELSE @]
  /\ UNCHANGED <<db, views, guards, last>>

\* Step 2: Voltar, without an initial service: setStep(1).
Booking_back(c) ==
  /\ wizard[c].step = 2
  /\ ~wizard[c].initial
  /\ wizard' = [wizard EXCEPT ![c].step = 1]
  /\ UNCHANGED <<db, views, guards, last>>

\* What the specification of the whole wizard leaves aside.
WizardFrame ==
  /\ UNCHANGED <<app, realtime, reviews, notifier, fetched>>

NextWizard ==
  \/ \E o \in Owners : ServiceManagement_handleSubmit(o, NoId, TRUE)
       /\ UNCHANGED wizard /\ WizardFrame
  \/ \E c \in BookingClients : Booking_open(c) /\ WizardFrame
  \/ \E c \in BookingClients, v \in ServiceIds : Booking_selectService(c, v) /\ WizardFrame
  \/ \E c \in BookingClients : Booking_back(c) /\ WizardFrame
  \/ \E c \in BookingClients, t \in {T0900} : Booking_setSelectedTime(c, t) /\ WizardFrame
  \/ \E c \in BookingClients, d \in DurationChoices :
       Booking_setCustomDuration(c, d) /\ WizardFrame
  \/ \E c \in BookingClients : Booking_continue(c) /\ WizardFrame
  \/ \E c \in BookingClients : Booking_edit(c) /\ WizardFrame
  \/ \E c \in BookingClients : Booking_finish(c) /\ WizardFrame
  \/ \E c \in BookingClients : Booking_unmount(c) /\ WizardFrame

SpecWizard == Init /\ [][NextWizard]_vars

\* -------------------------------------------------------- App: auth and view
\* The accounts that sign in at the browser: a client, a salon owner and the
\* platform's super admin.
AppUsers == {"c1", "o1", "sa"}

\* profiles.role
RoleOf(u) ==
  IF u \in Clients THEN "client" ELSE IF u \in Admins THEN "admin" ELSE "super_admin"

\* The role of the profile App holds ("-" while it holds none).
ProfileRole == IF app.profile = NoUser THEN "-" ELSE RoleOf(app.profile)

\* The view the redirect of fetchProfile sets for a role.
RoleHome(role) ==
  IF role = "super_admin" THEN "super_admin_dashboard"
  ELSE IF role = "admin" THEN "dashboard"
  ELSE "discovery"

\* The views in which fetchProfile redirects.
RedirectViews == {"home", "dashboard", "booking", "super_admin_dashboard"}

\* `view` as fetchProfile reads it.  The auth effect has no dependencies, so
\* the fetchProfile it calls, directly and from onAuthStateChange, is the one
\* of App's first render, where view is the initial state.
ClosureView == AppStart.view

\* Auth.handleAuth in login mode up to the answer of signInWithPassword: the
\* SIGNED_IN event reaches onAuthStateChange (setSession, fetchProfile sent);
\* the continuation of handleAuth is still to run.
Auth_handleAuth(u) ==
  /\ app.user = NoUser
  /\ app.view = "home"
  /\ ~app.signingIn
  /\ app' = [app EXCEPT !.user = u, !.fetching = u, !.signingIn = TRUE]

\* Auth.handleAuth, the continuation after signInWithPassword:
\* onAuthSuccess(), which is setView('dashboard').
Auth_onAuthSuccess ==
  /\ app.signingIn
  /\ app' = [app EXCEPT !.view = "dashboard", !.signingIn = FALSE]

\* fetchProfile, from the answer of the profiles query on: an error is logged;
\* otherwise setProfile and the redirect to the role's view.
App_fetchProfile(ok) ==
  /\ app.fetching # NoUser
  /\ app' = IF ok
            THEN [app EXCEPT !.fetching = NoUser,
                             !.profile = app.fetching,
                             !.view = IF ClosureView \in RedirectViews
                                      THEN RoleHome(RoleOf(app.fetching)) ELSE @]
            ELSE [app EXCEPT !.fetching = NoUser]

\* onAuthStateChange with a session, after the login (the token is refreshed,
\* the tab regains focus): setSession and fetchProfile.
App_onAuthStateChange ==
  /\ app.user # NoUser
  /\ app.fetching = NoUser
  /\ app' = [app EXCEPT !.fetching = app.user]

\* The views the menu and the screens lead to from the present view.
NavTargets ==
  {"home", "profile_settings"}
    \cup (IF ProfileRole = "super_admin" THEN {"super_admin_dashboard"}
          ELSE IF ProfileRole = "admin" THEN {"dashboard"}
          ELSE {"discovery", "client_appointments"})
    \cup (IF app.view = "discovery" THEN {"salon_detail", "booking"} ELSE {})
    \cup (IF app.view = "salon_detail" THEN {"discovery", "booking"} ELSE {})
    \cup (IF app.view = "booking" THEN {"discovery"} ELSE {})
    \cup (IF app.view = "profile_settings"
          THEN {IF ProfileRole = "super_admin" THEN "super_admin_dashboard"
                ELSE IF ProfileRole = "admin" THEN "dashboard" ELSE "booking"}
          ELSE {})

\* A menu entry or a screen's callback: setView(v).
App_setView(v) ==
  /\ app.user # NoUser
  /\ v \in NavTargets
  /\ app' = [app EXCEPT !.view = v]

\* handleLogout: signOut (onAuthStateChange without a session: setProfile(null))
\* and setView('home').
App_handleLogout ==
  /\ app.user # NoUser
  /\ app' = [app EXCEPT !.user = NoUser, !.profile = NoUser, !.view = "home"]

Views ==
  {"home", "dashboard", "booking", "client_appointments", "profile_settings",
   "discovery", "salon_detail", "super_admin_dashboard"}

\* What the App specification leaves aside: everything but the browser.
AppFrame ==
  /\ UNCHANGED <<db, views, guards, last, realtime, reviews, notifier, wizard, fetched>>

NextApp ==
  \/ \E u \in AppUsers : Auth_handleAuth(u) /\ AppFrame
  \/ Auth_onAuthSuccess /\ AppFrame
  \/ \E ok \in BOOLEAN : App_fetchProfile(ok) /\ AppFrame
  \/ App_onAuthStateChange /\ AppFrame
  \/ \E v \in Views : App_setView(v) /\ AppFrame
  \/ App_handleLogout /\ AppFrame

SpecApp == Init /\ [][NextApp]_vars

\* ------------------------------------------- handleBooking across its awaits
\* The component state a call of handleBooking works on.
Snapshot(w) ==
  [service |-> w.service, date |-> w.date, time |-> w.time, custom |-> w.custom,
   duration |-> w.duration]

\* Step 3: Finalizar Agendamento (disabled while loading), up to the first
\* await: the early return, or setLoading(true) and the getUser request.
Booking_handleBooking_start(c) ==
  /\ wizard[c].step = 3
  /\ ~wizard[c].loading
  /\ LET w == wizard[c]
         finalTime == IF w.custom # NoTime THEN w.custom ELSE w.time IN
     IF w.service = NoId \/ finalTime = NoTime
     THEN /\ last' = Outcome("Booking.handleBooking", NoId, "-", 0)
          /\ UNCHANGED wizard
     ELSE /\ wizard' = [wizard EXCEPT ![c].loading = TRUE, ![c].request = Snapshot(w)]
          /\ UNCHANGED last
  /\ UNCHANGED <<db, views, guards>>

\* A handler that calls setStep(4) whether or not the insert succeeded.
Booking_handleBooking_end_always(c, user) ==
  /\ wizard[c].loading
  /\ IF user = NoUser
     THEN /\ last' = Outcome("Booking.handleBooking", NoId, "not_authenticated", 0)
          /\ UNCHANGED <<db, views, guards>>
     ELSE handleBooking(user, wizard[c].request)
  /\ wizard' = [wizard EXCEPT ![c].loading = FALSE, ![c].request = NoRequest,
                              ![c].step = 4]

\* handleBooking from the answer of getUser on: without a user the error is
\* reported; otherwise the insert, setStep(4) after its success, the error
\* reported after its failure; finally setLoading(false).
Booking_handleBooking_end(c, user) ==
  /\ wizard[c].loading
  /\ IF user = NoUser
     THEN /\ last' = Outcome("Booking.handleBooking", NoId, "not_authenticated", 0)
          /\ UNCHANGED <<db, views, guards>>
     ELSE handleBooking(user, wizard[c].request)
  /\ wizard' = [wizard EXCEPT ![c].loading = FALSE, ![c].request = NoRequest,
                              ![c].step =
                                IF Len(appointments') > Len(appointments) THEN 4 ELSE @]

\* What the specification of the submission leaves aside.
SubmitFrame ==
  /\ Len(services') <= MaxTracked
  /\ UNCHANGED <<app, realtime, reviews, notifier, fetched>>

NextSubmit ==
  \/ \E o \in Owners : ServiceManagement_handleSubmit(o, NoId, TRUE)
       /\ UNCHANGED wizard /\ SubmitFrame
  \/ \E o \in Owners, v \in ServiceIds :
       ServiceManagement_confirmDelete_count(o, v) /\ UNCHANGED wizard /\ SubmitFrame
  \/ \E o \in Owners :
       ServiceManagement_confirmDelete_delete(o) /\ UNCHANGED wizard /\ SubmitFrame
  \/ \E c \in BookingClients, v \in ServiceIds : Booking_mount(c, v) /\ SubmitFrame
  \/ \E c \in BookingClients, t \in timeSlots : Booking_setSelectedTime(c, t) /\ SubmitFrame
  \/ \E c \in BookingClients : Booking_continue(c) /\ SubmitFrame
  \/ \E c \in BookingClients : Booking_edit(c) /\ SubmitFrame
  \/ \E c \in BookingClients : Booking_handleBooking_start(c) /\ SubmitFrame
  \/ \E c \in BookingClients : \E user \in {c, NoUser} :
       Booking_handleBooking_end(c, user) /\ SubmitFrame
  \/ \E c \in BookingClients : ~wizard[c].loading /\ Booking_unmount(c) /\ SubmitFrame

SpecSubmit == Init /\ [][NextSubmit]_vars

\* ------------------------------------------------------------- vocabulary
\* The transition table of the appointment lifecycle.
TransitionTable ==
  {<<"pending", "confirmed">>, <<"pending", "cancelled">>,
   <<"confirmed", "cancelled">>, <<"confirmed", "completed">>}

Terminal == {"completed", "cancelled"}

\* The transitions reserved to the owner of the appointment's salon.
OwnerOnly == {<<"pending", "confirmed">>, <<"confirmed", "completed">>}

IsClientOf(u, i) == appointments[i].client_id = u
IsSalonOwnerOf(u, i) == salons[appointments[i].salon_id] = u

\* The appointments that reference a service or a professional, all statuses.
ServiceRefs(v) == {i \in AppointmentIds : appointments[i].service_id = v}
ProfessionalRefs(p) == {i \in AppointmentIds : appointments[i].professional_id = p}

StatusChanged(i) == appointments'[i].status # appointments[i].status

\* ------------------------------------------------------------------ claims

\* C1: every change of a stored status made by the owner's status update or
\* the client's cancellation is a transition of the table; a request outside
\* the table leaves the status unchanged.
C1_TransitionsFollowTable ==
  [][\A i \in AppointmentIds :
       StatusChanged(i) =>
         <<appointments[i].status, appointments'[i].status>> \in TransitionTable]_vars

\* C2: an update request by an actor who is neither the appointment's client
\* nor the owner of its salon is answered with Forbidden and leaves the
\* appointment unchanged.
C2_StrangerIsForbidden ==
  [][\A u \in Users, i \in AppointmentIds, s \in Statuses :
       (UpdateAppointment(u, i, s) /\ ~IsClientOf(u, i) /\ ~IsSalonOwnerOf(u, i)) =>
         (last'.result = "Forbidden" /\ appointments' = appointments)]_vars

\* C3: a request pending -> confirmed or confirmed -> completed by anyone but
\* the owner of the appointment's salon leaves the status as it was.
C3_OnlyOwnerConfirmsOrCompletes ==
  [][\A u \in Users, i \in AppointmentIds, s \in Statuses :
       (/\ UpdateAppointment(u, i, s)
        /\ <<appointments[i].status, s>> \in OwnerOnly
        /\ ~IsSalonOwnerOf(u, i)) => ~StatusChanged(i)]_vars

\* C4: a status change is applied only if the persisted status is still the
\* one the requester's list showed when the request was issued.
C4_AppliedOnlyOnExpectedStatus ==
  [][\A i \in AppointmentIds :
       StatusChanged(i) =>
         /\ (last'.op = "Dashboard.updateAppointmentStatus" =>
               Shown(dashAppointments[salons[appointments[i].salon_id]], i)
                 = appointments[i].status)
         /\ (last'.op = "ClientAppointments.handleCancel" =>
               Shown(clientAppointments[appointments[i].client_id], i)
                 = appointments[i].status)]_vars

\* C5: once the status is completed or cancelled it never changes again.
C5_TerminalIsFinal ==
  [][\A i \in AppointmentIds :
       appointments[i].status \in Terminal =>
         appointments'[i].status = appointments[i].status]_vars

\* C6: a client booking is stored with status pending, and an owner's booking
\* on behalf of a client, all fields filled, is stored with status confirmed.
C6_CreationStatus ==
  /\ (last.op = "Booking.handleBooking" /\ last.result = "ok") =>
       (last.id \in AppointmentIds /\ appointments[last.id].status = "pending")
  /\ last.op = "AdminBookingModal.handleSubmit" =>
       /\ last.result = "ok"
       /\ last.id \in AppointmentIds
       /\ appointments[last.id].status = "confirmed"

\* C7: the count query of confirmDelete on a referenced service or professional
\* ends the deletion, keeps the entity and reports the number of referencing
\* appointments; the delete query on an unreferenced entity removes it; saving
\* the entity with is_active = false succeeds whatever references it.
C7_DeletionGuard ==
  [][/\ \A o \in Owners, v \in ServiceIds :
          /\ (ServiceManagement_confirmDelete_count(o, v) /\ ServiceRefs(v) # {}) =>
               /\ last'.result = "ReferentialConflict"
               /\ last'.count = Cardinality(ServiceRefs(v))
               /\ svcDeleting'[o] = NoId
               /\ ServiceExists(v)'
          /\ (ServiceManagement_confirmDelete_delete(o) /\ svcDeleting[o] = v
                /\ ServiceRefs(v) = {}) =>
               (last'.result = "deleted" /\ ~ServiceExists(v)')
          /\ ServiceManagement_handleSubmit(o, v, FALSE) =>
               (last'.result = "ok" /\ ServiceExists(v)' /\ ~services'[v].is_active)
     /\ \A o \in Owners, p \in ProfessionalIds :
          /\ (ProfessionalManagement_confirmDelete_count(o, p)
                /\ ProfessionalRefs(p) # {}) =>
               /\ last'.result = "ReferentialConflict"
               /\ last'.count = Cardinality(ProfessionalRefs(p))
               /\ profDeleting'[o] = NoId
               /\ ProfessionalExists(p)'
          /\ (ProfessionalManagement_confirmDelete_delete(o) /\ profDeleting[o] = p
                /\ ProfessionalRefs(p) = {}) =>
               (last'.result = "deleted" /\ ~ProfessionalExists(p)')
          /\ ProfessionalManagement_handleSubmit(o, p, FALSE) =>
               /\ last'.result = "ok"
               /\ ProfessionalExists(p)'
               /\ ~professionals'[p].is_active]_vars

\* A referenced service was refused deletion with its count, and it has since
\* been left in place.
C7_Witness ==
  /\ last.op = "ServiceManagement.confirmDelete"
  /\ last.result = "ReferentialConflict"
  /\ last.count = Cardinality(ServiceRefs(last.id))
  /\ last.count > 0
  /\ ServiceExists(last.id)

\* C8: a service or professional whose referencing appointments are all
\* cancelled or completed is still refused deletion by the count query.
C8_TerminalAppointmentsBlock ==
  [][/\ \A o \in Owners, v \in ServiceIds :
          (/\ ServiceManagement_confirmDelete_count(o, v)
           /\ ServiceRefs(v) # {}
           /\ \A i \in ServiceRefs(v) : appointments[i].status \in Terminal) =>
            (last'.result = "ReferentialConflict" /\ svcDeleting'[o] = NoId)
     /\ \A o \in Owners, p \in ProfessionalIds :
          (/\ ProfessionalManagement_confirmDelete_count(o, p)
           /\ ProfessionalRefs(p) # {}
           /\ \A i \in ProfessionalRefs(p) : appointments[i].status \in Terminal) =>
            (last'.result = "ReferentialConflict" /\ profDeleting'[o] = NoId)]_vars

\* A professional referenced only by cancelled or completed appointments was
\* refused deletion.
C8_Witness ==
  /\ last.op = "ProfessionalManagement.confirmDelete"
  /\ last.result = "ReferentialConflict"
  /\ ProfessionalRefs(last.id) # {}
  /\ \A i \in ProfessionalRefs(last.id) : appointments[i].status \in Terminal
  /\ ProfessionalExists(last.id)

\* C9: no service or professional is removed while an appointment references
\* it, no stored appointment references a missing service, and no deletion
\* clears the professional reference of a stored appointment.
C9_NoDeletionWhileReferenced ==
  [][/\ \A v \in ServiceIds :
          (ServiceExists(v) /\ ~ServiceExists(v)') => ServiceRefs(v) = {}
     /\ \A p \in ProfessionalIds :
          (ProfessionalExists(p) /\ ~ProfessionalExists(p)') => ProfessionalRefs(p) = {}
     /\ \A i \in AppointmentIds :
          /\ appointments'[i].professional_id = appointments[i].professional_id
          /\ ~services'[appointments'[i].service_id].deleted]_vars

\* C10: deactivating a service or professional sets its is_active to false and
\* changes nothing else: every appointment and every other catalog row is as
\* it was.
C10_DeactivationFrame ==
  [][/\ \A o \in Owners, v \in ServiceIds :
          ServiceManagement_handleSubmit(o, v, FALSE) =>
            /\ appointments' = appointments
            /\ professionals' = professionals
            /\ ~services'[v].is_active
            /\ services'[v].salon_id = services[v].salon_id
            /\ services'[v].deleted = services[v].deleted
            /\ \A w \in ServiceIds \ {v} : services'[w] = services[w]
            /\ Len(services') = Len(services)
     /\ \A o \in Owners, p \in ProfessionalIds :
          ProfessionalManagement_handleSubmit(o, p, FALSE) =>
            /\ appointments' = appointments
            /\ services' = services
            /\ ~professionals'[p].is_active
            /\ professionals'[p].salon_id = professionals[p].salon_id
            /\ professionals'[p].deleted = professionals[p].deleted
            /\ \A q \in ProfessionalIds \ {p} : professionals'[q] = professionals[q]
            /\ Len(professionals') = Len(professionals)]_vars

\* A service referenced by an appointment has just been deactivated.
C10_Witness ==
  /\ last.op = "ServiceManagement.handleSubmit"
  /\ ServiceExists(last.id)
  /\ ~services[last.id].is_active
  /\ ServiceRefs(last.id) # {}

\* The parties interested in an appointment: its client and its salon's owner.
Parties(apt) == {apt.client_id, salons[apt.salon_id]}

\* C11: a stored status change produces exactly one status-change event for
\* the observers, none occurs without one, and the event of a write that left
\* the status as it was makes no handler show a status-change alert.
C11_OneEventPerStatusChange ==
  [][/\ \A i \in AppointmentIds, u \in subscribed :
          (StatusChanged(i) /\ u \in Parties(appointments[i])) =>
            Cardinality({e \in inbox'[u] \ inbox[u] :
                           /\ e.id = i
                           /\ e.status = appointments'[i].status
                           /\ e.prior = appointments[i].status}) = 1
     /\ \A u \in Users : \A e \in inbox'[u] \ inbox[u] :
          (e.event = "UPDATE" /\ e.prior # e.status) =>
            (e.id \in AppointmentIds /\ StatusChanged(e.id))
     /\ \A u \in Users, again \in BOOLEAN : \A e \in inbox[u] :
          (/\ e.prior = e.status
           /\ \/ ClientAppointments_onUpdate(u, e, again)
              \/ Dashboard_onUpdate(u, e, again)) => alerts' = alerts]_vars

\* C12: a handler that is handed the same event twice shows at most one alert
\* for the event's (appointment id, new status).
C12_DuplicateDeliveryAlertsOnce ==
  [][\A u \in Users : \A e \in inbox[u] :
       (\/ ClientAppointments_onUpdate(u, e, TRUE)
        \/ Dashboard_onInsert(u, e, TRUE)
        \/ Dashboard_onUpdate(u, e, TRUE)) =>
         alerts'[u][<<e.id, e.status>>] <= alerts[u][<<e.id, e.status>>] + 1]_vars

\* C13: a step that stores a new appointment or changes a stored status hands
\* both the appointment's client and its salon's owner an event that their
\* handler answers with an alert.
C13_BothPartiesNotified ==
  [][\A i \in 1..Len(appointments') :
       (i \notin AppointmentIds \/ StatusChanged(i)) =>
         \A u \in Parties(appointments'[i]) :
           \E e \in inbox'[u] \ inbox[u] :
             /\ e.id = i
             /\ e.status = appointments'[i].status
             /\ AlertsOn(u, e)]_vars

\* The minutes after midnight of a time slot, read off the clock.
SlotMinutes(t) == IF t = T0900 THEN 540 ELSE 840

\* C14: finishing the wizard with an active service, a time slot and the
\* service's own duration stores exactly one more appointment: pending, at the
\* selected date and the slot's hour and minute, for the selected service and
\* its salon, with empty notes.
C14_BookingCreatesPending ==
  [][\A c \in BookingClients :
       (/\ Booking_finish(c)
        /\ ServiceExists(wizard[c].service)
        /\ services[wizard[c].service].is_active
        /\ wizard[c].custom = NoTime
        /\ wizard[c].time \in timeSlots
        /\ wizard[c].duration = DurationOf(wizard[c].service)) =>
         /\ Len(appointments') = Len(appointments) + 1
         /\ \A i \in AppointmentIds : appointments'[i] = appointments[i]
         /\ LET row == appointments'[Len(appointments')]
                w == wizard[c] IN
              /\ row.status = "pending"
              /\ row.client_id = c
              /\ row.start_time = w.date * MinutesPerDay + SlotMinutes(w.time)
              /\ row.service_id = w.service
              /\ row.salon_id = services[w.service].salon_id
              /\ row.notes = ""
         /\ wizard'[c].step = 4]_vars

\* The wizard has just stored a booking for tomorrow at 09:00.
C14_Witness ==
  /\ last.op = "Booking.handleBooking"
  /\ last.result = "ok"
  /\ wizard["c1"].step = 4
  /\ wizard["c1"].time = T0900
  /\ wizard["c1"].date = 1
  /\ appointments[last.id].start_time = MinutesPerDay + 540
  /\ appointments[last.id].status = "pending"

\* The duration of an appointment: the custom duration of its notes, else the
\* duration of its service.
Duration(apt) ==
  IF apt.notes = "" THEN ServiceDuration
  ELSE IF apt.notes = "Duracao personalizada: 60 min" THEN 60 ELSE 30

Overlap(a, b) ==
  /\ a.start_time < b.start_time + Duration(b)
  /\ b.start_time < a.start_time + Duration(a)

\* C15: no two stored appointments of a salon (and professional) that are not
\* cancelled have overlapping [start, start + duration) intervals.
C15_NoOverlap ==
  \A i, j \in AppointmentIds :
    (/\ i # j
     /\ appointments[i].status # "cancelled"
     /\ appointments[j].status # "cancelled"
     /\ appointments[i].salon_id = appointments[j].salon_id
     /\ appointments[i].professional_id = appointments[j].professional_id) =>
      ~Overlap(appointments[i], appointments[j])

\* C16: a booking submitted for a service that is missing or inactive at that
\* moment is answered with InvalidService and stores nothing.
C16_InactiveServiceRejected ==
  [][/\ \A c \in Clients, v \in ServiceIds, t \in StartTimes, n \in Notes :
          (Booking_handleBooking(c, v, t, n)
             /\ ~(ServiceExists(v) /\ services[v].is_active)) =>
            (appointments' = appointments /\ last'.result = "InvalidService")
     /\ \A o \in Owners, c \in Clients, v \in ServiceIds, t \in StartTimes :
          (AdminBookingModal_handleSubmit(o, c, v, t)
             /\ ~(ServiceExists(v) /\ services[v].is_active)) =>
            (appointments' = appointments /\ last'.result = "InvalidService")]_vars

C17_ReviewNeedsCompleted ==
  [][\A r \in reviews' \ reviews :
       \E i \in AppointmentIds :
         /\ appointments[i].client_id = r.client_id
         /\ appointments[i].salon_id = r.salon_id
         /\ \/ appointments[i].status = "completed"
            \/ Shown(clientAppointments[r.client_id], i) = "completed"]_vars

\* The screens that offer services for booking.
OfferingScreens ==
  {"Booking", "EstablishmentDiscovery", "EstablishmentDetail", "AdminBookingModal"}

\* C18: a list fetched by a screen that offers services for booking holds only
\* services that are active when it is fetched, and the list fetched by the
\* management screen holds the salon's services, each once, newest first.
C18_ListsActiveAndNewestFirst ==
  [][fetched' # fetched =>
       LET list == fetched'.list IN
       /\ fetched'.screen \in OfferingScreens =>
            \A k \in 1..Len(list) :
              ServiceExists(list[k]) /\ services[list[k]].is_active
       /\ fetched'.screen = "ServiceManagement" =>
            /\ {list[k] : k \in 1..Len(list)} = {v \in ServiceIds : ServiceExists(v)}
            /\ \A i, j \in 1..Len(list) : i < j => list[i] > list[j]]_vars

\* Booking has fetched its list while the older of two services is inactive:
\* the list is the newer service alone.
C18_Witness ==
  /\ fetched.screen = "Booking"
  /\ fetched.list = <<2>>
  /\ ServiceExists(1)
  /\ ~services[1].is_active
  /\ services[2].is_active

\* C19: for each user, appointment and reminder kind, at most one reminder is
\* sent, however many polls run, and the notified list of an appointment
\* holds no kind twice.
C19_AtMostOneReminder ==
  \A u \in Users : \A k \in ReminderKeys :
    /\ reminders[u][k] <= 1
    /\ \A i, j \in 1..Len(lastNotified[u][k[1]]) :
         i # j => lastNotified[u][k[1]][i] # lastNotified[u][k[1]][j]

\* The row with another status and every other column as it is.
WithStatus(row, status) == [row EXCEPT !.status = status]

\* C21: the owner's status update and the client's cancellation change the
\* status of the appointment they name and nothing else: its client, salon,
\* service, professional, start_time and notes stay, no row is added or
\* removed and no other appointment is modified.
C21_OnlyStatusChanges ==
  [][\A id \in AppointmentIds :
       (\/ \E o \in Owners, s \in Statuses : Dashboard_updateAppointmentStatus(o, id, s)
        \/ \E c \in Clients : ClientAppointments_handleCancel(c, id)) =>
         /\ Len(appointments') = Len(appointments)
         /\ appointments'[id] = WithStatus(appointments[id], appointments'[id].status)
         /\ \A i \in AppointmentIds : i # id => appointments'[i] = appointments[i]]_vars

\* The owner has confirmed the second of two appointments; the first is still
\* pending.
C21_Witness ==
  /\ Len(appointments) = 2
  /\ last.op = "Dashboard.updateAppointmentStatus"
  /\ last.id = 2
  /\ appointments[2].status = "confirmed"
  /\ appointments[1].status = "pending"

\* The columns that tell a stored appointment from another.
Booked(row) == <<row.client_id, row.salon_id, row.service_id, row.start_time>>

\* C22: no operation removes an appointment: after every step each stored
\* appointment is still stored, as the booking of the same client, salon,
\* service and start time.
C22_AppointmentsAreKept ==
  [][/\ Len(appointments') >= Len(appointments)
     /\ \A i \in AppointmentIds : Booked(appointments'[i]) = Booked(appointments[i])]_vars

\* The client has cancelled an appointment: the row is stored, as cancelled.
C22_Witness ==
  /\ last.op = "ClientAppointments.handleCancel"
  /\ last.id \in AppointmentIds
  /\ appointments[last.id].status = "cancelled"

\* C23: whenever the owner's list shows an appointment of the salon that is
\* confirmed, the list offers the owner its cancellation, and the cancellation
\* of a confirmed appointment by the owner stores the status cancelled.
C23_OwnerCancelsConfirmed ==
  /\ [](\A o \in Owners, id \in AppointmentIds :
          (/\ appointments[id].status = "confirmed"
           /\ IsSalonOwnerOf(o, id)
           /\ Shown(dashAppointments[o], id) = "confirmed") =>
            DashboardButton(Shown(dashAppointments[o], id), "cancelled"))
  /\ [][\A o \in Owners, id \in AppointmentIds :
          (/\ appointments[id].status = "confirmed"
           /\ Dashboard_updateAppointmentStatus(o, id, "cancelled")) =>
            appointments'[id].status = "cancelled"]_vars

\* The time of day handleBooking reads from the component state.
FinalTime(w) == IF w.custom # NoTime THEN w.custom ELSE w.time

\* C24: a booking whose start time is before the present instant, by the
\* wizard's Finalizar or by the admin's form, is answered with PastDate and
\* stores no appointment.
C24_PastBookingRejected ==
  [][/\ \A c \in BookingClients :
          (/\ Booking_finish(c)
           /\ startTime(wizard[c].date, FinalTime(wizard[c])) < now) =>
            (last'.result = "PastDate" /\ appointments' = appointments)
     /\ \A o \in Owners, c \in BookingClients, v \in ServiceIds, t \in StartTimes :
          (AdminBookingModal_handleSubmit(o, c, v, t) /\ t < now) =>
            (last'.result = "PastDate" /\ appointments' = appointments)]_vars

C26_RedirectOnlyFromEntryViews ==
  [][\A ok \in BOOLEAN :
       App_fetchProfile(ok) =>
         app'.view = IF ok /\ app.view \in RedirectViews
                     THEN RoleHome(RoleOf(app.fetching)) ELSE app.view]_vars

\* C27: once the login of a client is over (the profile is loaded, nothing of
\* the sign-in is still to run), the view is not the owner's dashboard.
C27_ClientNeverInDashboard ==
  (/\ app.user \in Clients
   /\ app.profile = app.user
   /\ app.fetching = NoUser
   /\ ~app.signingIn) => app.view # "dashboard"

\* C28: the salon of every stored appointment is the salon of the service it
\* references.
C28_SalonOfService ==
  \A i \in AppointmentIds :
    /\ appointments[i].service_id \in ServiceIds
    /\ appointments[i].salon_id = services[appointments[i].service_id].salon_id

\* The service of a stored appointment has been edited (deactivated) after
\* the booking.
C28_Witness ==
  /\ Len(appointments) >= 1
  /\ last.op = "ServiceManagement.handleSubmit"
  /\ last.id = appointments[1].service_id
  /\ ~services[last.id].is_active

\* C29: a reminder is sent only for an appointment that is confirmed and has
\* not started at the time of the poll, and only to the appointment's client
\* or to the owner of its salon; a poll of anyone else, or on an appointment
\* in another status, sends nothing.
C29_RemindersOnlyForConfirmed ==
  [][\A u \in Users, k \in ReminderKeys :
       reminders'[u][k] > reminders[u][k] =>
         /\ k[1] \in AppointmentIds
         /\ appointments[k[1]].status = "confirmed"
         /\ appointments[k[1]].start_time >= now'
         /\ \/ u \in Clients /\ appointments[k[1]].client_id = u
            \/ u \in Owners /\ salons[appointments[k[1]].salon_id] = u]_vars

\* All four users poll; the client and the owner of a confirmed appointment
\* have been reminded of it, the other client and the other admin have not.
C29_Witness ==
  /\ \A u \in Users : pollClosure[u].running
  /\ Len(appointments) = 1
  /\ appointments[1].status = "confirmed"
  /\ reminders[appointments[1].client_id][<<1, "day">>] >= 1
  /\ reminders["o1"][<<1, "day">>] >= 1
  /\ \A u \in Users \ {appointments[1].client_id, "o1"} :
       \A k \in ReminderKeys : reminders[u][k] = 0

====
